---- MODULE Spec2Model ----
(***************************************************************************)
(* The Iris classifier service: the serving endpoint (serve.py), the model *)
(* artifact (model.py), the response formatter (utils.py) and the training *)
(* pipeline (train.py).                                                    *)
(*                                                                         *)
(* Units.  Feature values are integers in tenths of a centimetre           *)
(* (5.1 cm = 51).  Probabilities are integers in percent (1.0 = 100).       *)
(* Python indices are 0-based; sequences here are 1-based, so Python's      *)
(* s[i] is s[i + 1] here.                                                   *)
(***************************************************************************)
EXTENDS Integers, Sequences, FiniteSets, TLC

VARIABLES
    model,        \* serve.py:36   the process-wide model reference
    phase,        \* "created" until the startup event has run, then "started"
    startupLog,   \* what load_model logged last ("" before startup)
    modelFile,    \* content of the file at settings.get_model_path()
    request,      \* the request handled last
    response,     \* the response to it
    calls,        \* the methods of the model invoked while handling it
    pc,           \* train.py: the step the training process is about to run
    classifier,   \* train.py:21  the IrisClassifier being trained
    split,        \* train.py:29  the result of load_data
    metrics,      \* train.py:39  the result of evaluate
    dirExists,    \* whether the model directory exists
    metricsFile,  \* content of <model dir>/metrics.json
    written,      \* the storage writes of this training run, in order
    failed,       \* the step of the pipeline that raised ("" if none did)
    exitStatus    \* the status the training process exited with (-1: running)

serveVars == <<model, phase, startupLog, request, response, calls>>
trainVars == <<pc, classifier, split, metrics, dirExists, metricsFile, written,
               failed, exitStatus>>
vars == <<model, phase, startupLog, modelFile, request, response, calls,
          pc, classifier, split, metrics, dirExists, metricsFile, written,
          failed, exitStatus>>

----------------------------------------------------------------------------
(* Bounds of the model *)

\* longest batch a request carries
MaxBatch == 2

----------------------------------------------------------------------------
(* Values and results *)

None == [kind |-> "None"]

Ok(v) == [ok |-> TRUE, val |-> v]
\* an exception of class type whose str() is msg
Raise(type, msg) == [ok |-> FALSE, err |-> [type |-> type, msg |-> msg]]

\* str(e)
Str(e) == e.msg

Min(a, b) == IF a <= b THEN a ELSE b

\* model.py:19
CLASS_NAMES == <<"setosa", "versicolor", "virginica">>

\* model.py:22
FEATURE_NAMES == <<"sepal_length", "sepal_width", "petal_length", "petal_width">>

\* probability 1.0 in percent: the upper limit of PredictionResponse.confidence
ProbOne == 100

\* The largest finite value of the float32 the forest converts its input to
\* (3.4e38), in the model's units: a stand-in every ordinary measurement is
\* far below.
Float32Max == 100000

----------------------------------------------------------------------------
(* Python indexing: s[i] for a list or an array s, negative i counting      *)
(* from the end.                                                            *)

PyIndexOK(s, i) == -Len(s) <= i /\ i < Len(s)

PyIndex(s, i) == IF i >= 0 THEN s[i + 1] ELSE s[Len(s) + i + 1]

----------------------------------------------------------------------------
(* utils.py: format_prediction_response *)

\* dict(zip(class_names, probabilities)): zip stops at the shorter of the
\* two; a key that occurs twice keeps its last value.
ZipDict(class_names, probabilities) ==
    LET n == Min(Len(class_names), Len(probabilities))
        last(name) == CHOOSE k \in 1..n :
                         /\ class_names[k] = name
                         /\ \A j \in 1..n : class_names[j] = name => j <= k
    IN [name \in {class_names[k] : k \in 1..n} |-> probabilities[last(name)]]

\* the formatter reporting the largest probability as the confidence
format_prediction_response_MaxConfidence(prediction, probabilities, class_names) ==
    IF ~PyIndexOK(class_names, prediction)
    THEN Raise("IndexError", "list index out of range")
    ELSE IF ~PyIndexOK(probabilities, prediction)
    THEN Raise("IndexError", "index is out of bounds for axis 0")
    ELSE Ok([prediction       |-> PyIndex(class_names, prediction),
             prediction_index |-> prediction,
             confidence       |-> CHOOSE c \in {probabilities[k] : k \in 1..Len(probabilities)} :
                                     \A k \in 1..Len(probabilities) : probabilities[k] <= c,
             probabilities    |-> ZipDict(class_names, probabilities)])

format_prediction_response(prediction, probabilities, class_names) ==
    IF ~PyIndexOK(class_names, prediction)
    THEN Raise("IndexError", "list index out of range")
    ELSE IF ~PyIndexOK(probabilities, prediction)
    THEN Raise("IndexError", "index is out of bounds for axis 0")
    ELSE Ok([prediction       |-> PyIndex(class_names, prediction),
             prediction_index |-> prediction,
             confidence       |-> PyIndex(probabilities, prediction),
             probabilities    |-> ZipDict(class_names, probabilities)])

----------------------------------------------------------------------------
(* The fitted classifier (sklearn's RandomForestClassifier, held in         *)
(* IrisClassifier.model).  A forest is [fitted, cuts]: the fitted           *)
(* parameters are thresholds on petal_length, cuts[k] the least             *)
(* petal_length of the classes k and above (classes count from 0); it has   *)
(* Len(cuts) + 1 classes.                                                   *)

Unfitted == [fitted |-> FALSE, cuts |-> <<>>]

\* a row is <<sepal_length, sepal_width, petal_length, petal_width>>
PetalLength(row) == row[3]

\* width of the band below and above a threshold in which the trees disagree
Margin == 5

ForestClass(forest, row) ==
    Cardinality({k \in 1..Len(forest.cuts) : forest.cuts[k] <= PetalLength(row)})

\* one vote share per class, in percent; the rows sum to ProbOne
ForestProbaRow(forest, row) ==
    LET c == ForestClass(forest, row)
        n == Len(forest.cuts) + 1
        other == IF c < n - 1 /\ forest.cuts[c + 1] - PetalLength(row) <= Margin
                 THEN c + 1
                 ELSE IF c > 0 /\ PetalLength(row) - forest.cuts[c] < Margin
                 THEN c - 1
                 ELSE c
    IN [k \in 1..n |-> IF other = c
                       THEN (IF k - 1 = c THEN ProbOne ELSE 0)
                       ELSE (IF k - 1 = c THEN 60
                             ELSE IF k - 1 = other THEN ProbOne - 60 ELSE 0)]

\* The input check every predict call of the library starts with: the input
\* must be a 2-D array with at least one row (numpy turns an empty list into
\* a 1-D array of length 0) whose values are finite as float32.
ForestCheckInput(forest, X) ==
    IF ~forest.fitted
    THEN Raise("NotFittedError", "This RandomForestClassifier instance is not fitted yet")
    ELSE IF X = <<>>
    THEN Raise("ValueError", "Expected 2D array, got 1D array instead")
    ELSE IF \E i \in 1..Len(X) : \E f \in 1..Len(X[i]) : X[i][f] > Float32Max
    THEN Raise("ValueError", "Input X contains infinity or a value too large for dtype('float32')")
    ELSE Ok(X)

ForestPredict(forest, X) ==
    LET chk == ForestCheckInput(forest, X)
    IN IF ~chk.ok THEN chk
       ELSE Ok([i \in 1..Len(X) |-> ForestClass(forest, X[i])])

ForestPredictProba(forest, X) ==
    LET chk == ForestCheckInput(forest, X)
    IN IF ~chk.ok THEN chk
       ELSE Ok([i \in 1..Len(X) |-> ForestProbaRow(forest, X[i])])

\* RandomForestClassifier.fit on rows X with labels y (0 .. n-1, each
\* present): the thresholds that separate the classes of the training rows.
ForestFit(X, y) ==
    LET top == CHOOSE m \in {y[i] : i \in 1..Len(y)} :
                   \A i \in 1..Len(y) : y[i] <= m
        least(k) == CHOOSE v \in {PetalLength(X[i]) : i \in {j \in 1..Len(X) : y[j] >= k}} :
                       \A i \in 1..Len(X) : y[i] >= k => v <= PetalLength(X[i])
    IN [fitted |-> TRUE, cuts |-> [k \in 1..top |-> least(k)]]

----------------------------------------------------------------------------
(* model.py: IrisClassifier *)

\* IrisClassifier.__init__
IrisClassifierInit(random_state) ==
    [kind |-> "IrisClassifier", model |-> Unfitted,
     random_state |-> random_state, is_trained |-> FALSE]

\* IrisClassifier.train: the object after a fit that did not raise
IrisClassifierTrain(self, X_train, y_train) ==
    [self EXCEPT !.model = ForestFit(X_train, y_train), !.is_trained = TRUE]

\* the outcome r of a call of self.model.<method>, with the call on record
Via(method, r) ==
    IF r.ok THEN [ok |-> TRUE, val |-> r.val, forest |-> <<method>>]
            ELSE [ok |-> FALSE, err |-> r.err, forest |-> <<method>>]

\* the methods of the underlying forest an outcome went through
ForestCalls(r) == IF "forest" \in DOMAIN r THEN r.forest ELSE <<>>

\* IrisClassifier.predict with the is_trained check left out
IrisClassifierPredict_Unchecked(self, X) ==
    Via("predict", ForestPredict(self.model, X))

IrisClassifierPredict(self, X) ==
    IF ~self.is_trained
    THEN Raise("ValueError", "Model must be trained before making predictions")
    ELSE Via("predict", ForestPredict(self.model, X))

IrisClassifierPredictProba(self, X) ==
    IF ~self.is_trained
    THEN Raise("ValueError", "Model must be trained before making predictions")
    ELSE Via("predict_proba", ForestPredictProba(self.model, X))

(* joblib.dump / joblib.load: the file holds the pickled object, that is   *)
(* its class and the values of its attributes.                             *)

Absent == [kind |-> "absent"]

\* a file whose bytes do not decode (truncated, or not a pickle)
Corrupt == [kind |-> "corrupt"]

Pickle(obj) ==
    [kind |-> "pickle", cls |-> obj.kind,
     state |-> <<obj.model, obj.random_state, obj.is_trained>>]

\* a load that rebuilds the object through __init__ and restores the forest only
Unpickle_FlagLost(file) ==
    [kind |-> file.cls, model |-> file.state[1],
     random_state |-> file.state[2], is_trained |-> FALSE]

Unpickle(file) ==
    [kind |-> file.cls, model |-> file.state[1],
     random_state |-> file.state[2], is_trained |-> file.state[3]]

\* IrisClassifier.save: the content written to filepath, or the error
IrisClassifierSave(self) ==
    IF ~self.is_trained
    THEN Raise("ValueError", "Cannot save an untrained model")
    ELSE Ok(Pickle(self))

\* IrisClassifier.load
IrisClassifierLoad(file) ==
    IF file = Absent THEN Raise("FileNotFoundError", "No such file or directory")
    ELSE IF file = Corrupt THEN Raise("UnpicklingError", "invalid load key")
    ELSE Ok(Unpickle(file))

----------------------------------------------------------------------------
(* serve.py: request and response models *)

\* IrisFeatures with the ge=0 constraints left out
IrisFeaturesErrors_NoGe(body) ==
    {<<f, "missing">> : f \in {FEATURE_NAMES[k] : k \in 1..Len(FEATURE_NAMES)} \ DOMAIN body}

\* IrisFeatures: the errors of a request body, one per field that is missing
\* (Field(...)) or negative (ge=0); the body is valid when there are none.
IrisFeaturesErrors(body) ==
    LET fields == {FEATURE_NAMES[k] : k \in 1..Len(FEATURE_NAMES)}
    IN {<<f, "missing">> : f \in fields \ DOMAIN body}
       \cup {<<f, "greater_than_equal">> : f \in {g \in fields \cap DOMAIN body : body[g] < 0}}

\* PredictionResponse(**result): confidence has ge=0, le=1
PredictionResponse(result) ==
    IF result.confidence < 0 \/ result.confidence > ProbOne
    THEN Raise("ValidationError", "1 validation error for PredictionResponse")
    ELSE Ok(result)

\* HealthResponse
HealthResponse(status, model_loaded, model_path) ==
    [status |-> status, model_loaded |-> model_loaded, model_path |-> model_path]

(* What the client receives.  kind is "object" or "array" for a 200, and   *)
(* "error" otherwise; raw tells that an exception left the handler          *)
(* uncaught.                                                                *)

NoResponse ==
    [status |-> 0, kind |-> "none", body |-> <<>>, detail |-> <<>>,
     errors |-> {}, raw |-> FALSE]

Returned(kind, body) ==
    [status |-> 200, kind |-> kind, body |-> body, detail |-> <<>>,
     errors |-> {}, raw |-> FALSE]

HTTPException(status_code, detail) ==
    [status |-> status_code, kind |-> "error", body |-> <<>>, detail |-> detail,
     errors |-> {}, raw |-> FALSE]

\* the framework's answer to a body that fails validation: the handler is
\* not called
RequestValidationError(errors) ==
    [status |-> 422, kind |-> "error", body |-> <<>>,
     detail |-> <<"validation error">>, errors |-> errors, raw |-> FALSE]

\* the availability error raised with the status of an internal error
ModelNotLoaded_As500 == HTTPException(500, <<"Model not loaded. Please check server logs.">>)

ModelNotLoaded == HTTPException(503, <<"Model not loaded. Please check server logs.">>)

\* the handler's try block without its except clause
PredictFailed_Propagates(e) ==
    [status |-> 500, kind |-> "error", body |-> <<>>,
     detail |-> <<"Internal Server Error">>, errors |-> {}, raw |-> TRUE]

\* serve.py:164-166
PredictFailed(e) == HTTPException(500, <<"Prediction failed: ", Str(e)>>)

\* serve.py:213-217
BatchPredictFailed(e) == HTTPException(500, <<"Batch prediction failed: ", Str(e)>>)

\* the row of the numpy array built from one IrisFeatures
Row(f) == <<f.sepal_length, f.sepal_width, f.petal_length, f.petal_width>>

----------------------------------------------------------------------------
(* serve.py: the handlers.  Each yields the response, the methods of the   *)
(* model it invoked, in order, and the value of the global model reference *)
(* when it returns (no handler declares the global, so none rebinds it).   *)

\* a handler that drops the model reference when inference fails
Outcome_ResetOnFailure(resp, invoked, m) ==
    [response |-> resp, calls |-> invoked,
     model |-> IF resp.status = 500 THEN None ELSE m]

Outcome(resp, invoked, m) == [response |-> resp, calls |-> invoked, model |-> m]

\* predict(features), with the model reference m
predict(m, features) ==
    IF m = None THEN Outcome(ModelNotLoaded, <<>>, m)
    ELSE
      LET X == <<Row(features)>>
          p == IrisClassifierPredict(m, X)
          q == IrisClassifierPredictProba(m, X)
          f == format_prediction_response(p.val[1], q.val[1], CLASS_NAMES)
          r == PredictionResponse(f.val)
      IN IF ~p.ok THEN Outcome(PredictFailed(p.err), <<"predict">>, m)
         ELSE IF ~q.ok THEN Outcome(PredictFailed(q.err), <<"predict", "predict_proba">>, m)
         ELSE IF ~f.ok THEN Outcome(PredictFailed(f.err), <<"predict", "predict_proba">>, m)
         ELSE IF ~r.ok THEN Outcome(PredictFailed(r.err), <<"predict", "predict_proba">>, m)
         ELSE Outcome(Returned("object", <<r.val>>), <<"predict", "predict_proba">>, m)

\* predict_batch(features_list), with the model reference m
predict_batch(m, features_list) ==
    IF m = None THEN Outcome(ModelNotLoaded, <<>>, m)
    ELSE
      LET X == [i \in 1..Len(features_list) |-> Row(features_list[i])]
          p == IrisClassifierPredict(m, X)
          q == IrisClassifierPredictProba(m, X)
          n == Min(Len(p.val), Len(q.val))
          item(i) == LET f == format_prediction_response(p.val[i], q.val[i], CLASS_NAMES)
                     IN IF ~f.ok THEN f ELSE PredictionResponse(f.val)
          bad == {i \in 1..n : ~item(i).ok}
          first == CHOOSE i \in bad : \A j \in bad : i <= j
      IN IF ~p.ok THEN Outcome(BatchPredictFailed(p.err), <<"predict">>, m)
         ELSE IF ~q.ok THEN Outcome(BatchPredictFailed(q.err), <<"predict", "predict_proba">>, m)
         ELSE IF bad # {}
         THEN Outcome(BatchPredictFailed(item(first).err), <<"predict", "predict_proba">>, m)
         ELSE Outcome(Returned("array", [i \in 1..n |-> item(i).val]),
                      <<"predict", "predict_proba">>, m)

\* health()
\* health() answering "healthy" whatever the model reference is
health_AlwaysHealthy(m) ==
    Outcome(Returned("object",
                     <<HealthResponse("healthy", m # None, "models/iris_model.joblib")>>),
            <<>>, m)

health(m) ==
    Outcome(Returned("object",
                     <<HealthResponse(IF m # None THEN "healthy" ELSE "unhealthy",
                                      m # None, "models/iris_model.joblib")>>),
            <<>>, m)

\* root()
root(m) ==
    Outcome(Returned("object",
                     <<[message |-> "Iris Classifier API", version |-> "0.1.0",
                        docs |-> "/docs", health |-> "/health"]>>),
            <<>>, m)

(* The routes: the framework decodes and validates the body against the    *)
(* handler's parameter type and calls the handler only with a valid one.   *)

\* POST /predict
PostPredict(m, body) ==
    IF IrisFeaturesErrors(body) # {}
    THEN Outcome(RequestValidationError(IrisFeaturesErrors(body)), <<>>, m)
    ELSE predict(m, body)

\* POST /predict/batch
PostPredictBatch(m, list) ==
    LET errors == UNION {{<<i>> \o e : e \in IrisFeaturesErrors(list[i])} : i \in 1..Len(list)}
    IN IF errors # {}
       THEN Outcome(RequestValidationError(errors), <<>>, m)
       ELSE predict_batch(m, list)

\* load_model without the try/except around IrisClassifier.load
load_model_Reraise(m, file) ==
    IF file = Absent
    THEN [model |-> m, log |-> "Model file not found", raised |-> FALSE]
    ELSE LET r == IrisClassifierLoad(file)
         IN IF r.ok
            THEN [model |-> r.val, log |-> "Model loaded successfully", raised |-> FALSE]
            ELSE [model |-> m, log |-> "", raised |-> TRUE]

\* load_model(): the reference after the startup event, what it logged, and
\* whether it raised
load_model(m, file) ==
    IF file = Absent
    THEN [model |-> m, log |-> "Model file not found", raised |-> FALSE]
    ELSE LET r == IrisClassifierLoad(file)
         IN IF r.ok
            THEN [model |-> r.val, log |-> "Model loaded successfully", raised |-> FALSE]
            ELSE [model |-> m, log |-> "Failed to load model", raised |-> FALSE]

----------------------------------------------------------------------------
(* The data set and the artifacts *)

\* load_iris(): rows and labels (a few rows of each class stand for the 150)
IrisX ==
    << <<51, 35, 14, 2>>,  <<49, 30, 15, 2>>,
       <<70, 32, 47, 14>>, <<59, 30, 42, 15>>,
       <<63, 33, 60, 25>>, <<67, 30, 52, 23>> >>

IrisY == <<0, 0, 1, 1, 2, 2>>

\* settings.random_state: the default and one other seed
Seeds == {42, 7}

\* train_test_split: the rows held out for the test, a function of the seed
TestRows(seed) == {1 + (seed % Len(IrisX)), 1 + ((seed + 3) % Len(IrisX))}

\* the subsequence of s at the indices in idx, in order
RECURSIVE Take(_, _, _)
Take(s, idx, i) ==
    IF i > Len(s) THEN <<>>
    ELSE (IF i \in idx THEN <<s[i]>> ELSE <<>>) \o Take(s, idx, i + 1)

\* IrisClassifier.load_data
load_data(self) ==
    LET test == TestRows(self.random_state)
        train == (1..Len(IrisX)) \ test
    IN [X_train |-> Take(IrisX, train, 1), X_test |-> Take(IrisX, test, 1),
        y_train |-> Take(IrisY, train, 1), y_test |-> Take(IrisY, test, 1)]

\* IrisClassifier.evaluate
evaluate(self, X_test, y_test) ==
    LET p == IrisClassifierPredict(self, X_test)
        classes == 0..(Len(CLASS_NAMES) - 1)
        hits == Cardinality({i \in 1..Len(y_test) : p.val[i] = y_test[i]})
    IN IF ~p.ok THEN p
       ELSE Ok([accuracy |-> (ProbOne * hits) \div Len(y_test),
                confusion_matrix |->
                    [t \in classes |-> [c \in classes |->
                        Cardinality({i \in 1..Len(y_test) : y_test[i] = t /\ p.val[i] = c})]]])

\* the artifacts the training pipeline saves, one per seed
Trained(seed) ==
    LET c == IrisClassifierInit(seed)
        d == load_data(c)
    IN IrisClassifierTrain(c, d.X_train, d.y_train)

\* an IrisClassifier fitted elsewhere, on data with four classes
FourClassArtifact ==
    [kind |-> "IrisClassifier", model |-> [fitted |-> TRUE, cuts |-> <<20, 40, 50>>],
     random_state |-> 42, is_trained |-> TRUE]

\* what the server may find at the model path when it starts: nothing, a
\* file that does not decode, an artifact saved by the training pipeline, or
\* one fitted elsewhere
ModelFiles ==
    {Absent, Corrupt}
    \cup {Pickle(a) : a \in {Trained(s) : s \in Seeds} \cup {FourClassArtifact}}

----------------------------------------------------------------------------
(* Request bodies *)

Features(sl, sw, pl, pw) ==
    [sepal_length |-> sl, sepal_width |-> sw, petal_length |-> pl, petal_width |-> pw]

Without(body, f) == [g \in (DOMAIN body) \ {f} |-> body[g]]

Setosa == Features(51, 35, 14, 2)
Versicolor == Features(64, 32, 45, 15)
Virginica == Features(67, 30, 52, 23)

FieldNames == {FEATURE_NAMES[k] : k \in 1..Len(FEATURE_NAMES)}

\* valid bodies: typical samples, a zero field, a value beyond float32
ValidBodies ==
    {Setosa, Versicolor, Virginica,
     [Setosa EXCEPT !.petal_width = 0],
     [Virginica EXCEPT !.sepal_length = Float32Max + 1]}

\* bodies with one field missing or negative
InvalidBodies ==
    {Without(Setosa, f) : f \in FieldNames}
    \cup {[Setosa EXCEPT ![f] = -10] : f \in FieldNames}

Bodies == ValidBodies \cup InvalidBodies

\* the bodies the entries of a batch are drawn from
BatchBodies ==
    {Setosa, Versicolor, Virginica,
     [Virginica EXCEPT !.sepal_length = Float32Max + 1],
     Without(Setosa, "petal_width"), [Setosa EXCEPT !.sepal_length = -10]}

Batches == UNION {[1..n -> BatchBodies] : n \in 0..MaxBatch}

----------------------------------------------------------------------------
(* The server process *)

\* a request is recorded with the model reference and the phase of the
\* server at the time it was handled
NoRequest == [op |-> "none", body |-> <<>>, model |-> None, phase |-> "created"]

ServeInit ==
    /\ model = None
    /\ phase = "created"
    /\ startupLog = ""
    /\ request = NoRequest
    /\ response = NoResponse
    /\ calls = <<>>

\* the training process, not started
TrainIdle ==
    /\ pc = "idle"
    /\ classifier = None
    /\ split = None
    /\ metrics = None
    /\ written = <<>>
    /\ failed = ""
    /\ exitStatus = -1

Init ==
    /\ ServeInit
    /\ TrainIdle
    /\ modelFile \in ModelFiles
    /\ dirExists = (modelFile # Absent)
    /\ metricsFile = Absent

\* the startup event: load_model runs once; if it raised, the server would
\* not come up
Startup ==
    /\ phase = "created"
    /\ LET r == load_model(model, modelFile)
       IN /\ model' = r.model
          /\ startupLog' = r.log
          /\ phase' = IF r.raised THEN "crashed" ELSE "started"
    /\ UNCHANGED <<modelFile, request, response, calls>>
    /\ UNCHANGED trainVars

\* Handlers are coroutines without an await: each runs to completion.  The
\* test client calls them on an application whose startup event has not run.
Serving == phase \in {"created", "started"}

Handle(op, body, out) ==
    /\ request' = [op |-> op, body |-> body, model |-> model, phase |-> phase]
    /\ response' = out.response
    /\ calls' = out.calls
    /\ model' = out.model
    /\ UNCHANGED <<phase, startupLog, modelFile>>
    /\ UNCHANGED trainVars

GetRoot == Serving /\ Handle("root", <<>>, root(model))

GetHealth == Serving /\ Handle("health", <<>>, health(model))

Predict ==
    /\ Serving
    /\ \E body \in Bodies : Handle("predict", body, PostPredict(model, body))

PredictBatch ==
    /\ Serving
    /\ \E list \in Batches : Handle("predict_batch", list, PostPredictBatch(model, list))

Next == Startup \/ GetRoot \/ GetHealth \/ Predict \/ PredictBatch

Spec == Init /\ [][Next]_vars

----------------------------------------------------------------------------
(* train.py: the training process.  Each step of train_model is one        *)
(* action; a step that raises ends train_model, and main logs the error    *)
(* and exits with status 1.                                                *)

\* train_model with the model directory created before the fit
StepAfter_DirFirst(step) ==
    CASE step = "load_data"    -> "ensure_dir"
      [] step = "ensure_dir"   -> "train"
      [] step = "train"        -> "evaluate"
      [] step = "evaluate"     -> "save"
      [] step = "save"         -> "save_metrics"
      [] step = "save_metrics" -> "done"

\* the step that follows a step that succeeded (train.py:29-60)
StepAfter(step) ==
    CASE step = "load_data"    -> "train"
      [] step = "train"        -> "evaluate"
      [] step = "evaluate"     -> "ensure_dir"
      [] step = "ensure_dir"   -> "save"
      [] step = "save"         -> "save_metrics"
      [] step = "save_metrics" -> "done"

\* json.dump(convert_numpy_to_python(metrics)): the text of metrics.json
Json(m) ==
    [kind |-> "json", accuracy |-> m.accuracy,
     confusion_matrix |-> [t \in DOMAIN m.confusion_matrix |->
                            [c \in DOMAIN m.confusion_matrix[t] |-> m.confusion_matrix[t][c]]]]

TrainInit ==
    /\ ServeInit
    /\ pc = "load_data"
    /\ \E seed \in Seeds : classifier = IrisClassifierInit(seed)
    /\ split = None
    /\ metrics = None
    /\ written = <<>>
    /\ failed = ""
    /\ exitStatus = -1
    /\ dirExists \in BOOLEAN
    /\ modelFile \in IF dirExists THEN {Absent} \cup {Pickle(Trained(s)) : s \in Seeds}
                                  ELSE {Absent}
    /\ metricsFile \in IF dirExists THEN {Absent, Corrupt} ELSE {Absent}

\* main() starting the pipeline over when a step raises
Abort_Retry(step) ==
    /\ failed' = step
    /\ pc' = "load_data"
    /\ exitStatus' = exitStatus

\* main(): train_model raised in step: log, sys.exit(1)
Abort(step) ==
    /\ failed' = step
    /\ pc' = "exited"
    /\ exitStatus' = 1

\* main(): train_model returned: sys.exit(0)
Advance(step) ==
    /\ failed' = failed
    /\ pc' = IF StepAfter(step) = "done" THEN "exited" ELSE StepAfter(step)
    /\ exitStatus' = IF StepAfter(step) = "done" THEN 0 ELSE exitStatus

\* X_train, X_test, y_train, y_test = classifier.load_data()
LoadData ==
    /\ pc = "load_data"
    /\ \E ok \in BOOLEAN :
         IF ok THEN split' = load_data(classifier) /\ Advance("load_data")
               ELSE split' = split /\ Abort("load_data")
    /\ UNCHANGED <<classifier, metrics, dirExists, modelFile, metricsFile, written>>
    /\ UNCHANGED serveVars

\* classifier.train(X_train, y_train)
Train ==
    /\ pc = "train"
    /\ \E ok \in BOOLEAN :
         IF ok THEN /\ classifier' = IrisClassifierTrain(classifier, split.X_train, split.y_train)
                    /\ Advance("train")
               ELSE classifier' = classifier /\ Abort("train")
    /\ UNCHANGED <<split, metrics, dirExists, modelFile, metricsFile, written>>
    /\ UNCHANGED serveVars

\* metrics = classifier.evaluate(X_test, y_test)
Evaluate ==
    /\ pc = "evaluate"
    /\ LET r == evaluate(classifier, split.X_test, split.y_test)
       IN \E ok \in BOOLEAN :
            IF ok /\ r.ok THEN metrics' = r.val /\ Advance("evaluate")
                          ELSE metrics' = metrics /\ Abort("evaluate")
    /\ UNCHANGED <<classifier, split, dirExists, modelFile, metricsFile, written>>
    /\ UNCHANGED serveVars

\* ensure_dir(model_path.parent): mkdir(parents=True, exist_ok=True)
EnsureDir ==
    /\ pc = "ensure_dir"
    /\ \E ok \in BOOLEAN :
         IF ok THEN /\ dirExists' = TRUE
                    /\ written' = IF dirExists THEN written ELSE Append(written, "mkdir")
                    /\ Advance("ensure_dir")
               ELSE UNCHANGED <<dirExists, written>> /\ Abort("ensure_dir")
    /\ UNCHANGED <<classifier, split, metrics, modelFile, metricsFile>>
    /\ UNCHANGED serveVars

\* how a write of a file ends: done, refused before anything is written, or
\* broken off with part of the content on disk
WriteOutcomes == {"written", "refused", "partial"}

\* classifier.save(str(model_path))
SaveModel ==
    /\ pc = "save"
    /\ LET r == IrisClassifierSave(classifier)
       IN \E how \in WriteOutcomes :
            IF ~r.ok \/ ~dirExists \/ how = "refused"
            THEN UNCHANGED <<modelFile, written>> /\ Abort("save")
            ELSE IF how = "partial"
            THEN /\ modelFile' = Corrupt
                 /\ written' = Append(written, "model")
                 /\ Abort("save")
            ELSE /\ modelFile' = r.val
                 /\ written' = Append(written, "model")
                 /\ Advance("save")
    /\ UNCHANGED <<classifier, split, metrics, dirExists, metricsFile>>
    /\ UNCHANGED serveVars

\* save_metrics(metrics, metrics_path): ensure_dir, open(filepath, "w"),
\* json.dump
SaveMetrics ==
    /\ pc = "save_metrics"
    /\ \E how \in WriteOutcomes :
         IF how = "refused"
         THEN UNCHANGED <<dirExists, metricsFile, written>> /\ Abort("save_metrics")
         ELSE /\ dirExists' = TRUE
              /\ written' = (IF dirExists THEN written ELSE Append(written, "mkdir"))
                               \o <<"metrics">>
              /\ IF how = "partial"
                 THEN metricsFile' = Corrupt /\ Abort("save_metrics")
                 ELSE metricsFile' = Json(metrics) /\ Advance("save_metrics")
    /\ UNCHANGED <<classifier, split, metrics, modelFile>>
    /\ UNCHANGED serveVars

TrainNext == LoadData \/ Train \/ Evaluate \/ EnsureDir \/ SaveModel \/ SaveMetrics

TrainSpec == TrainInit /\ [][TrainNext]_vars

\* The training process runs its steps one after the other, and each call
\* returns or raises: a step that can be taken is taken.
TrainFairSpec == TrainSpec /\ WF_vars(TrainNext)

----------------------------------------------------------------------------
(* An artifact used directly, as tests/test_model.py does: one             *)
(* IrisClassifier object (classifier), the file at the path it is saved to *)
(* (modelFile) and the object the last IrisClassifier.load returned        *)
(* (model).  request is the last call with the object it was made on,      *)
(* response its outcome, calls the methods of the forest it went through;  *)
(* pc tells whether the file is the one this object saved and whether it   *)
(* has been loaded back since.                                             *)

ArtifactRows ==
    {Row(b) : b \in {Setosa, Versicolor, Virginica,
                     [Virginica EXCEPT !.sepal_length = Float32Max + 1]}}

ArtifactInputs == UNION {[1..n -> ArtifactRows] : n \in 0..MaxBatch}

Call(op, X, self) == [op |-> op, X |-> X, self |-> self]

ArtifactInit ==
    /\ \E seed \in Seeds : classifier = IrisClassifierInit(seed)
    /\ modelFile \in {Absent, Corrupt} \cup {Pickle(Trained(s)) : s \in Seeds}
    /\ model = None
    /\ pc = "new"
    /\ request = Call("none", <<>>, None)
    /\ response = NoResponse
    /\ calls = <<>>
    /\ phase = "created"
    /\ startupLog = ""
    /\ split = None
    /\ metrics = None
    /\ dirExists = TRUE
    /\ metricsFile = Absent
    /\ written = <<>>
    /\ failed = ""
    /\ exitStatus = -1

ArtifactFrame ==
    UNCHANGED <<phase, startupLog, split, metrics, dirExists, metricsFile,
                written, failed, exitStatus>>

\* X_train, _, y_train, _ = classifier.load_data(); classifier.train(...)
ArtifactTrain ==
    /\ LET d == load_data(classifier)
       IN classifier' = IrisClassifierTrain(classifier, d.X_train, d.y_train)
    /\ request' = Call("train", <<>>, classifier)
    /\ response' = Ok(None)
    /\ calls' = <<"fit">>
    /\ UNCHANGED <<model, modelFile, pc>>
    /\ ArtifactFrame

\* classifier.predict(X)
ArtifactPredict ==
    /\ \E X \in ArtifactInputs :
         LET r == IrisClassifierPredict(classifier, X)
         IN /\ request' = Call("predict", X, classifier)
            /\ response' = r
            /\ calls' = ForestCalls(r)
    /\ UNCHANGED <<classifier, model, modelFile, pc>>
    /\ ArtifactFrame

\* classifier.predict_proba(X)
ArtifactPredictProba ==
    /\ \E X \in ArtifactInputs :
         LET r == IrisClassifierPredictProba(classifier, X)
         IN /\ request' = Call("predict_proba", X, classifier)
            /\ response' = r
            /\ calls' = ForestCalls(r)
    /\ UNCHANGED <<classifier, model, modelFile, pc>>
    /\ ArtifactFrame

\* classifier.save(path): joblib.dump writes the file, or breaks off with
\* part of it written
ArtifactSave ==
    /\ LET r == IrisClassifierSave(classifier)
       IN IF ~r.ok
          THEN response' = r /\ UNCHANGED <<modelFile, pc>>
          ELSE \E done \in BOOLEAN :
                 IF done
                 THEN modelFile' = r.val /\ pc' = "saved" /\ response' = Ok(None)
                 ELSE /\ modelFile' = Corrupt
                      /\ pc' = "new"
                      /\ response' = Raise("OSError", "No space left on device")
    /\ request' = Call("save", <<>>, classifier)
    /\ calls' = <<>>
    /\ UNCHANGED <<classifier, model>>
    /\ ArtifactFrame

\* loaded_classifier = IrisClassifier.load(path)
ArtifactLoad ==
    /\ LET r == IrisClassifierLoad(modelFile)
       IN /\ response' = r
          /\ model' = IF r.ok THEN r.val ELSE model
          /\ pc' = IF r.ok /\ pc = "saved" THEN "reloaded" ELSE pc
    /\ request' = Call("load", <<>>, classifier)
    /\ calls' = <<>>
    /\ UNCHANGED <<classifier, modelFile>>
    /\ ArtifactFrame

ArtifactNext ==
    \/ ArtifactTrain
    \/ ArtifactPredict
    \/ ArtifactPredictProba
    \/ ArtifactSave
    \/ ArtifactLoad

ArtifactSpec == ArtifactInit /\ [][ArtifactNext]_vars

----------------------------------------------------------------------------
(* The formatter called on its own, as tests/test_utils.py does: request   *)
(* holds the caller's prediction, probabilities and class_names, response  *)
(* what the call produced; pc is "call" before it and "returned" after.    *)

\* indices are drawn from -IndexSpan .. IndexSpan
IndexSpan == 4

\* probabilities in percent
ProbValues == {0, 5, 15, 80}

FormatArgs(prediction, probabilities, class_names) ==
    [op |-> "format", prediction |-> prediction,
     probabilities |-> probabilities, class_names |-> class_names]

FormatInit ==
    /\ \E i \in (-IndexSpan)..IndexSpan :
         \E p \in [1..Len(CLASS_NAMES) -> ProbValues] :
           request = FormatArgs(i, p, CLASS_NAMES)
    /\ response = NoResponse
    /\ pc = "call"
    /\ model = None
    /\ phase = "created"
    /\ startupLog = ""
    /\ modelFile = Absent
    /\ calls = <<>>
    /\ classifier = None
    /\ split = None
    /\ metrics = None
    /\ dirExists = FALSE
    /\ metricsFile = Absent
    /\ written = <<>>
    /\ failed = ""
    /\ exitStatus = -1

\* result = format_prediction_response(prediction, probabilities, class_names):
\* the function builds a new dict and assigns to none of its arguments
Format ==
    /\ pc = "call"
    /\ response' = format_prediction_response(request.prediction,
                                              request.probabilities,
                                              request.class_names)
    /\ pc' = "returned"
    /\ UNCHANGED <<request, model, phase, startupLog, modelFile, calls, classifier,
                   split, metrics, dirExists, metricsFile, written, failed, exitStatus>>

FormatNext == Format

FormatSpec == FormatInit /\ [][FormatNext]_vars

----------------------------------------------------------------------------
(* Properties of the serving endpoint *)

IsPredictOp(req) == req.op \in {"predict", "predict_batch"}

\* some field of the body is missing or negative
BadBody(body) == \E f \in FieldNames : f \notin DOMAIN body \/ body[f] < 0

\* the entries of the request, one for a single predict
Entries(req) == IF req.op = "predict" THEN <<req.body>> ELSE req.body

ValidRequest(req) == \A i \in 1..Len(Entries(req)) : ~BadBody(Entries(req)[i])

ServiceUnavailable(resp) ==
    /\ resp.status = 503
    /\ resp.detail = <<"Model not loaded. Please check server logs.">>
    /\ ~resp.raw

\* C1 as stated: every single-predict or batch-predict request handled while
\* no artifact is loaded is answered 503 with the fixed message, whatever its
\* body, and the model is not invoked.
C1_UnavailableWhateverTheBody ==
    (IsPredictOp(request) /\ request.model = None)
        => (ServiceUnavailable(response) /\ calls = <<>>)

\* C1, amended: a single-predict or batch-predict request handled while no
\* artifact is loaded is answered 503 with the fixed message when its body
\* passes validation and 422 when it does not (validation comes first); it
\* never yields 200 or 500 and the model is never invoked.
C1_UnavailableWhenBodyValid ==
    (IsPredictOp(request) /\ request.model = None)
        => /\ calls = <<>>
           /\ IF ValidRequest(request) THEN ServiceUnavailable(response)
                                       ELSE response.status = 422

\* a valid, non-empty batch was answered 503 with no artifact loaded
C1_Witness ==
    /\ request.op = "predict_batch"
    /\ request.model = None
    /\ Len(request.body) > 0
    /\ ValidRequest(request)
    /\ response.status = 503

\* C2: a POST /predict whose body has a field missing or negative is answered
\* 422, whether or not an artifact is loaded, and the model's predict and
\* predict_proba are not called for it.
C2_InvalidBodyIs422 ==
    (request.op = "predict" /\ BadBody(request.body))
        => (response.status = 422 /\ calls = <<>>)

\* a body with a negative field was answered 422 with an artifact loaded
C2_Witness ==
    /\ request.op = "predict"
    /\ request.model # None
    /\ \E f \in FieldNames : f \in DOMAIN request.body /\ request.body[f] < 0
    /\ response.status = 422

\* C3: the model reference changes only in the startup step, only from
\* absent to a loaded artifact (hence at most once), and no step taken after
\* startup changes it.
C3_ModelWrittenOnceAtStartup ==
    [][/\ model' # model =>
            /\ phase = "created" /\ phase' = "started"
            /\ model = None /\ model' # None
            /\ startupLog' = "Model loaded successfully"
       /\ phase = "started" => model' = model]_vars

\* after a successful load, a batch request failed in inference and the
\* reference still holds the artifact
C3_Witness ==
    /\ phase = "started"
    /\ model # None
    /\ request.phase = "started"
    /\ request.op = "predict_batch"
    /\ response.status = 500
    /\ model = request.model

LoadFails == modelFile.kind \in {"absent", "corrupt"}

\* C4 as stated: when the startup load fails, startup ends without raising,
\* the reference stays absent, every later health query reports model_loaded
\* false and every later predict request is answered 503.
C4_DegradedAlways503 ==
    (LoadFails /\ phase # "created")
        => /\ phase = "started"
           /\ model = None
           /\ (request.phase = "started" /\ request.op = "health")
                 => response.body[1].model_loaded = FALSE
           /\ (request.phase = "started" /\ IsPredictOp(request))
                 => ServiceUnavailable(response)

\* C4, amended: when the startup load fails, startup ends without raising,
\* the reference stays absent, every later health query reports model_loaded
\* false, and every later predict request is answered 503 when its body
\* passes validation and 422 when it does not.
C4_DegradedMode ==
    (LoadFails /\ phase # "created")
        => /\ phase = "started"
           /\ model = None
           /\ (request.phase = "started" /\ request.op = "health")
                 => (response.status = 200 /\ response.body[1].model_loaded = FALSE)
           /\ (request.phase = "started" /\ IsPredictOp(request))
                 => IF ValidRequest(request) THEN ServiceUnavailable(response)
                                             ELSE response.status = 422

\* IrisClassifier.load raised at startup and a later predict was answered 503
C4_Witness ==
    /\ modelFile = Corrupt
    /\ phase = "started"
    /\ request.phase = "started"
    /\ request.op = "predict"
    /\ response.status = 503

PipelineArtifacts == {Trained(s) : s \in Seeds}

\* every value of the body is within the range of float32
Ordinary(body) == \A f \in DOMAIN body : body[f] <= Float32Max

\* C5: a batch-predict request with an empty list, handled while an artifact
\* is loaded, is answered 200 with an empty list.
C5_EmptyBatchReturnsEmptyList ==
    (request.op = "predict_batch" /\ request.body = <<>> /\ request.model # None)
        => /\ response.status = 200
           /\ response.kind = "array"
           /\ response.body = <<>>

\* C6, on the inputs that ask least of it (an artifact saved by the training
\* pipeline, measurements within the range of float32): a batch-predict
\* request of n valid feature vectors is answered with exactly n results,
\* result i being the result a single predict of input i gives.
C6_BatchMatchesSingles ==
    (/\ request.op = "predict_batch"
     /\ request.model \in PipelineArtifacts
     /\ ValidRequest(request)
     /\ \A i \in 1..Len(request.body) : Ordinary(request.body[i]))
        => /\ response.status = 200
           /\ response.kind = "array"
           /\ Len(response.body) = Len(request.body)
           /\ \A i \in 1..Len(request.body) :
                 <<response.body[i]>>
                     = PostPredict(request.model, request.body[i]).response.body

\* What does hold of a batch: every batch-predict request answered 200 has
\* exactly one result per entry, in the order of the entries, each equal to
\* the result of a single predict of that entry, and a batch of one or more
\* valid entries is answered 200 exactly when every one of them is on its
\* own.
BatchMatchesSinglesWhenAnswered ==
    (request.op = "predict_batch" /\ request.model # None /\ ValidRequest(request))
        => LET single(i) == PostPredict(request.model, request.body[i]).response
           IN /\ response.status = 200 =>
                    /\ Len(response.body) = Len(request.body)
                    /\ \A i \in 1..Len(request.body) :
                          single(i).status = 200 /\ <<response.body[i]>> = single(i).body
              /\ Len(request.body) > 0 =>
                    (response.status = 200
                        <=> \A i \in 1..Len(request.body) : single(i).status = 200)

\* the response of the endpoint of req to one more body or batch
Answer(req, other) ==
    IF req.op = "predict" THEN PostPredict(req.model, other).response
                          ELSE PostPredictBatch(req.model, other).response

\* C7: the body of a 500 does not depend on the error that was raised: any
\* other request to the same endpoint that fails in inference gets the same
\* response.
C7_FailureBodyIsGeneric ==
    (IsPredictOp(request) /\ response.status = 500)
        => \A other \in (IF request.op = "predict" THEN Bodies ELSE Batches) :
              Answer(request, other).status = 500 => Answer(request, other) = response

\* the rows of the array the handler builds from the request
Rows(req) == [i \in 1..Len(Entries(req)) |-> Row(Entries(req)[i])]

\* predict, predict_proba, the formatting or the construction of a response
\* raises for these rows
InferenceRaises(m, rows) ==
    LET p == IrisClassifierPredict(m, rows)
        q == IrisClassifierPredictProba(m, rows)
    IN \/ ~p.ok
       \/ ~q.ok
       \/ \E i \in 1..Len(rows) :
             LET f == format_prediction_response(p.val[i], q.val[i], CLASS_NAMES)
             IN ~f.ok \/ ~PredictionResponse(f.val).ok

\* C8: with an artifact loaded, no exception leaves the single-predict or the
\* batch-predict handler raw; one raised by predict, predict_proba, the
\* formatting or the construction of the response is reported as status 500;
\* and the handler leaves the model reference unchanged.
C8_InferenceFailuresAreCaught ==
    /\ []((IsPredictOp(request) /\ request.model # None /\ ValidRequest(request))
            => /\ ~response.raw
               /\ InferenceRaises(request.model, Rows(request))
                     => (response.status = 500 /\ response.kind = "error"))
    /\ [][(phase' = phase /\ IsPredictOp(request')) => model' = model]_vars

\* a single predict on a trained artifact failed in inference, was answered
\* 500, and the reference still holds the artifact
C8_Witness ==
    /\ request.op = "predict"
    /\ request.model \in PipelineArtifacts
    /\ ValidRequest(request)
    /\ InferenceRaises(request.model, Rows(request))
    /\ response.status = 500
    /\ model = request.model

----------------------------------------------------------------------------
(* Properties of the training pipeline *)

WrittenFiles == {written[k] : k \in 1..Len(written)}

\* C9: a run of the pipeline that failed has written neither the model file
\* nor the metrics file.
C9_NoPartialArtifacts ==
    exitStatus = 1 => WrittenFiles \cap {"model", "metrics"} = {}

Storage == <<dirExists, modelFile, metricsFile, written>>

\* C10: the steps run in the order load/split, fit, evaluate, directory,
\* model file, metrics file, a step is followed by the next one or by the
\* exit, and storage does not change as long as evaluate has not succeeded
\* (metrics is still unset).
C10_NoWriteBeforeEvaluate ==
    [][/\ pc' # pc =>
            \/ pc' = "exited"
            \/ <<pc, pc'>> \in {<<"load_data", "train">>, <<"train", "evaluate">>,
                                <<"evaluate", "ensure_dir">>, <<"ensure_dir", "save">>,
                                <<"save", "save_metrics">>}
       /\ (metrics = None \/ pc \in {"load_data", "train", "evaluate"})
            => Storage' = Storage]_vars

\* evaluate raised: the run has exited with status 1 and has written nothing
C10_Witness ==
    /\ failed = "evaluate"
    /\ exitStatus = 1
    /\ written = <<>>
    /\ classifier.is_trained

\* the position of a step in train_model, the exit last
StepRank(step) ==
    CASE step = "load_data"    -> 1
      [] step = "train"        -> 2
      [] step = "evaluate"     -> 3
      [] step = "ensure_dir"   -> 4
      [] step = "save"         -> 5
      [] step = "save_metrics" -> 6
      [] step = "exited"       -> 7

\* every step of the pipeline has succeeded: the classifier is trained, the
\* metrics are computed and both files hold this run's content
EveryStepSucceeded ==
    /\ failed = ""
    /\ split # None
    /\ classifier.is_trained
    /\ metrics # None
    /\ written = (IF "mkdir" \in WrittenFiles THEN <<"mkdir">> ELSE <<>>)
                    \o <<"model", "metrics">>
    /\ modelFile.kind = "pickle" /\ modelFile.state[1] = classifier.model
    /\ metricsFile.kind = "json" /\ metricsFile.accuracy = metrics.accuracy

\* C11: the training entry point ends with an exit status, 0 exactly when
\* every step of the pipeline succeeded and 1 when a step raised; a step is
\* never run a second time and nothing runs after the exit.
C11_ExitStatus ==
    /\ <>(pc = "exited")
    /\ [](IF pc = "exited"
          THEN /\ exitStatus \in {0, 1}
               /\ exitStatus = 0 <=> EveryStepSucceeded
               /\ exitStatus = 1 <=> failed # ""
          ELSE exitStatus = -1 /\ failed = "")
    /\ [][pc' # pc => StepRank(pc') > StepRank(pc)]_vars

\* a run whose every step succeeded has exited with status 0
C11_Witness ==
    /\ pc = "exited"
    /\ exitStatus = 0
    /\ EveryStepSucceeded


----------------------------------------------------------------------------
(* Properties of the artifact *)

UntrainedError(op) ==
    [type |-> "ValueError",
     msg |-> IF op = "save" THEN "Cannot save an untrained model"
                            ELSE "Model must be trained before making predictions"]

GuardedOps == {"predict", "predict_proba", "save"}

\* C12: predict, predict_proba and save on an artifact whose trained flag is
\* unset raise the ValueError of the untrained condition, go through no
\* method of the forest, leave the flag unset and write no file; on an
\* artifact whose flag is set none of them raises that error.
C12_UntrainedGuard ==
    /\ [](request.op \in GuardedOps =>
            IF ~request.self.is_trained
            THEN /\ ~response.ok
                 /\ response.err = UntrainedError(request.op)
                 /\ calls = <<>>
            ELSE response.ok \/ response.err # UntrainedError(request.op))
    /\ [][(request'.op \in GuardedOps /\ ~classifier.is_trained) =>
            /\ classifier' = classifier
            /\ ~classifier'.is_trained
            /\ modelFile' = modelFile]_vars

C12_Witness ==
    /\ request.op = "predict"
    /\ request.X # <<>>
    /\ ~request.self.is_trained
    /\ response.err = UntrainedError("predict")
    /\ calls = <<>>


----------------------------------------------------------------------------
(* Properties of the health query *)

\* C14: the health query answers "healthy" exactly when the model reference
\* is loaded and "unhealthy" otherwise, with model_loaded telling whether it
\* is loaded; it leaves the model reference as it was, so a query made
\* before any load attempt reports model_loaded false.
C14_HealthReportsModel ==
    /\ [](request.op = "health" =>
            /\ response.status = 200
            /\ response.body[1].status \in {"healthy", "unhealthy"}
            /\ response.body[1].status = "healthy" <=> request.model # None
            /\ response.body[1].model_loaded = (request.model # None)
            /\ request.phase = "created" => ~response.body[1].model_loaded)
    /\ [][(request'.op = "health" /\ phase' = phase) =>
            /\ model' = model
            /\ modelFile' = modelFile
            /\ calls' = <<>>]_vars

C14_Witness ==
    /\ request.op = "health"
    /\ request.phase = "created"
    /\ response.body[1].status = "unhealthy"
    /\ ~response.body[1].model_loaded
    /\ model = None


----------------------------------------------------------------------------
(* Properties of format_prediction_response *)

\* C15: for every index i in 0..2, every probability vector p of length 3
\* and the fixed list of class names, the formatter returns a record with
\* prediction = class_names[i], prediction_index = i, confidence = p[i] and
\* a probabilities mapping with exactly one entry per class name, the entry
\* of class_names[k] being p[k]; it changes none of its inputs.
C15_FormatInRange ==
    /\ [](pc = "returned" /\ request.prediction \in 0..2 =>
            LET i == request.prediction
                p == request.probabilities
            IN /\ response.ok
               /\ response.val.prediction = CLASS_NAMES[i + 1]
               /\ response.val.prediction_index = i
               /\ response.val.confidence = p[i + 1]
               /\ DOMAIN response.val.probabilities = {"setosa", "versicolor", "virginica"}
               /\ \A k \in 1..3 : response.val.probabilities[CLASS_NAMES[k]] = p[k])
    /\ [][request' = request]_vars

C15_Witness ==
    /\ pc = "returned"
    /\ request.prediction = 1
    /\ request.probabilities = <<80, 15, 5>>
    /\ response.ok
    /\ response.val.prediction = "versicolor"
    /\ response.val.confidence = 15

\* C16: given an index that is not in 0..len(class_names)-1, negative
\* indices included, the formatter raises an error and returns no record.
C16_OutOfRangeRaises ==
    (pc = "returned" /\ request.prediction \notin 0..(Len(request.class_names) - 1))
        => ~response.ok

====
